---------------------------- MODULE Spec2Model ----------------------------
(***************************************************************************)
(* SbomRootComponents.py: a Dependency-Track reporting client.             *)
(*                                                                         *)
(* The program is sequential.  Its state is the command line, the locals   *)
(* of main / get_projects / list_all_projects / print_project_dependencies,*)
(* the text printed so far and the HTTP requests made so far.  One action  *)
(* is one HTTP request together with the code that runs up to the next     *)
(* request.  Each request either succeeds (the backend's answer) or fails  *)
(* (a transport / HTTP error raised by requests).                          *)
(*                                                                         *)
(* Strings on which the code works character by character (names,         *)
(* severities, the command-line token, display names) are sequences of     *)
(* one-character strings; identifiers the code only passes along (uuids,   *)
(* vulnerability ids) are opaque values.                                   *)
(***************************************************************************)
EXTENDS Integers, Sequences, FiniteSets

VARIABLES
    argv,          \* sys.argv[1:], a sequence of tokens
    srvPages,      \* backend: the answer to GET /project?pageNumber=p
    srvDeps,       \* backend: project uuid -> direct dependencies
    pc,            \* where the program is
    caller,        \* which call of get_projects is running
    page,          \* get_projects: page
    all_projects,  \* get_projects: all_projects (and the caller's copy)
    project,       \* main: project / list_all_projects: loop variable
    pidx,          \* list_all_projects: position of the loop
    direct_deps,   \* print_project_dependencies: direct_deps
    didx,          \* print_project_dependencies: idx
    total_vulns,   \* print_project_dependencies: total_vulns
    vulnsGot,      \* print_project_dependencies: the value of vulns, per idx
    out,           \* stdout, a sequence of lines
    reqlog,        \* the HTTP requests made so far
    nfail          \* number of requests that failed by injected error

vars == << argv, srvPages, srvDeps, pc, caller, page, all_projects, project,
           pidx, direct_deps, didx, total_vulns, vulnsGot, out, reqlog, nfail >>

-----------------------------------------------------------------------------
(* Bounds of the model *)

MaxProjects == 3    \* projects of a small backend
MaxDeps == 3        \* direct dependencies of the project under report
MaxPages == 3       \* pages of a large backend
MaxFails == 2       \* requests that may fail in one run

(* Program constants *)

PageSize == 100
UuidLen == 36
UuidHyphens == 4
ShownVulns == 3

-----------------------------------------------------------------------------
(* Strings *)

Lo == << "a","b","c","d","e","f","g","h","i","j","k","l","m",
         "n","o","p","q","r","s","t","u","v","w","x","y","z" >>
Up == << "A","B","C","D","E","F","G","H","I","J","K","L","M",
         "N","O","P","Q","R","S","T","U","V","W","X","Y","Z" >>

UpperChar(c) ==
    IF \E i \in DOMAIN Lo : Lo[i] = c
    THEN Up[CHOOSE i \in DOMAIN Lo : Lo[i] = c] ELSE c

LowerChar(c) ==
    IF \E i \in DOMAIN Up : Up[i] = c
    THEN Lo[CHOOSE i \in DOMAIN Up : Up[i] = c] ELSE c

\* str.upper()
Upper(s) == [i \in 1..Len(s) |-> UpperChar(s[i])]

\* str.lower()
Lower(s) == [i \in 1..Len(s) |-> LowerChar(s[i])]

\* str.count(c)
RECURSIVE CountChar(_, _)
CountChar(s, c) ==
    IF s = << >> THEN 0
    ELSE (IF Head(s) = c THEN 1 ELSE 0) + CountChar(Tail(s), c)

\* dict.get(k, default)
Get(d, k, default) == IF k \in DOMAIN d THEN d[k] ELSE default

S_CRITICAL == << "C","R","I","T","I","C","A","L" >>
S_HIGH == << "H","I","G","H" >>
S_MEDIUM == << "M","E","D","I","U","M" >>
S_LOW == << "L","O","W" >>
S_UNASSIGNED == << "U","N","A","S","S","I","G","N","E","D" >>
S_INFO == << "I","N","F","O" >>

\* the keys of vuln_counts and total_vulns
Actionable == { S_CRITICAL, S_HIGH, S_MEDIUM, S_LOW }

ZeroCounts == [s \in Actionable |-> 0]

None == [none |-> TRUE]


-----------------------------------------------------------------------------
(* Command-line tokens *)

\* a token of n characters with "-" at the positions hy
Tok(n, hy) == [i \in 1..n |-> IF i \in hy THEN "-" ELSE "a"]

UUID_KNOWN == Tok(UuidLen, {9, 14, 19, 24})
T_36_4odd == Tok(UuidLen, {1, 2, 3, 36})
T_36_0 == Tok(UuidLen, {})
T_36_3 == Tok(UuidLen, {9, 14, 19})
T_36_5 == Tok(UuidLen, {9, 14, 19, 24, 30})
T_35_4 == Tok(UuidLen - 1, {9, 14, 19, 24})
T_37_4 == Tok(UuidLen + 1, {9, 14, 19, 24})

N_mylib == << "m","y","l","i","b" >>
N_MyLib == << "M","y","L","i","b" >>
N_MYLIB == << "M","Y","L","I","B" >>
N_mylibx == << "m","y","l","i","b","x" >>
N_my == << "m","y" >>
N_app == << "a","p","p" >>
V_1 == << "1" >>

UuidTokens == { UUID_KNOWN, T_36_4odd }
NameTokens == { T_36_0, T_36_3, T_36_5, T_35_4, T_37_4, N_MyLib, N_my, N_mylibx }

-----------------------------------------------------------------------------
(* Backend data *)

PA == [name |-> N_mylibx, version |-> V_1, uuid |-> 1]
PB == [name |-> N_mylib, version |-> V_1, uuid |-> 2]
PC == [name |-> N_MYLIB, version |-> V_1, uuid |-> 3]
ProjectPool == { PA, PB, PC }

A_purl == << "p","k","g",":","f","o","o" >>
A_group == << "c","o","m" >>
A_name == << "f","o","o" >>
A_ver == << "1",".","0" >>

CompA == [uuid |-> 11, purl |-> A_purl, group |-> A_group, name |-> A_name, version |-> A_ver]
CompB == [uuid |-> 12, group |-> A_group, name |-> A_name, version |-> A_ver]
CompC == [uuid |-> 13, name |-> A_name, version |-> A_ver]
CompD == [uuid |-> 14, purl |-> << >>, group |-> << >>]
CompE == [uuid |-> 15, purl |-> A_purl, name |-> A_name, version |-> A_ver]
CompF == [uuid |-> 16, purl |-> << >>, group |-> A_group, name |-> A_name]
ComponentPool == { CompA, CompB, CompC, CompD, CompE, CompF }

Vuln(id, sev) == [vulnId |-> id, severity |-> sev]

\* GET /api/v1/vulnerability/component/{uuid}
VulnsOf(cu) ==
    CASE cu = 11 -> << Vuln("V1", S_CRITICAL), Vuln("V2", S_HIGH) >>
      [] cu = 12 -> << >>
      [] cu = 13 -> << Vuln("V3", S_LOW), Vuln("V4", S_LOW), Vuln("V5", S_MEDIUM) >>
      [] cu = 14 -> << Vuln("V6", Lower(S_CRITICAL)), Vuln("V7", << "H","i","g","h" >>),
                       Vuln("V8", S_UNASSIGNED), Vuln("V9", S_LOW), Vuln("V10", S_MEDIUM) >>
      [] cu = 15 -> << Vuln("V11", S_UNASSIGNED), Vuln("V12", Lower(S_INFO)) >>
      [] cu = 16 -> << Vuln("V13", << "b","o","g","u","s" >>), [vulnId |-> "V14"],
                       [vulnId |-> "V15", severity |-> S_MEDIUM, cvssV3BaseScore |-> 0,
                        cvssV2BaseScore |-> 5],
                       [severity |-> Lower(S_MEDIUM), cvssV3BaseScore |-> 9] >>
      [] OTHER -> << >>

\* GET /api/v1/project?pageNumber=p&pageSize=100
PageOf(p) == IF p \in DOMAIN srvPages THEN srvPages[p] ELSE << >>

\* GET /api/v1/dependencyGraph/project/{uuid}/directDependencies
DepsOf(u) == IF u \in DOMAIN srvDeps THEN srvDeps[u] ELSE << >>

\* GET /api/v1/project/{uuid}: the backend knows one uuid
KnownUuid(key) == key = UUID_KNOWN
ProjectOf(key) == PA

\* sequences over S of length at most n
SeqUpTo(S, n) == UNION { [1..k -> S] : k \in 0..n }

\* a project of a large backend: item i of page p
BigProj(p, i) ==
    [name |-> IF p = 2 /\ i = 37 THEN N_mylib ELSE N_app,
     version |-> V_1, uuid |-> 1000 * p + i]

BigPage(p, n) == [i \in 1..n |-> BigProj(p, i)]

PageSizes == { 0, 37, PageSize }

FixedDeps == [u \in {1, 2, 3} |->
    CASE u = 1 -> << CompA, CompB, CompC >> [] u = 2 -> << >> [] u = 3 -> << CompE >>]


-----------------------------------------------------------------------------
(* Pure parts of the code *)

\* the test without the count of hyphens
LooksLikeUuid_NoHyphens(key) == Len(key) = UuidLen

\* main: the test that sends the token to the lookup by uuid
LooksLikeUuid(key) == Len(key) = UuidLen /\ CountChar(key, "-") = UuidHyphens

\* the comparison without lower()
NameMatches_CaseSensitive(p, name) == Get(p, "name", << >>) = name

\* find_project_by_name: "if project.get('name', '').lower() == name.lower()"
NameMatches(p, name) == Lower(Get(p, "name", << >>)) = Lower(name)

\* find_project_by_name: the scan of projects[lo..hi] from left to right
\* (split in halves, the left half first)
RECURSIVE ScanFrom(_, _, _, _)
ScanFrom(projects, name, lo, hi) ==
    IF lo > hi THEN None
    ELSE IF lo = hi
         THEN (IF NameMatches(projects[lo], name) THEN projects[lo] ELSE None)
         ELSE LET mid == (lo + hi) \div 2
                  left == ScanFrom(projects, name, lo, mid)
              IN IF left # None THEN left ELSE ScanFrom(projects, name, mid + 1, hi)

FindFirst(projects, name) == ScanFrom(projects, name, 1, Len(projects))

\* main: "if project:"
Truthy(p) == p # None

\* the loop without "if len(projects) < 100: break"
PageStep_NoShortStop(all, pg, projects) ==
    IF projects = << >>
    THEN [all |-> all, page |-> pg, done |-> TRUE]
    ELSE [all |-> all \o projects, page |-> pg + 1, done |-> FALSE]

\* get_projects: one turn of the loop on the page received.
\* done: the loop was left.
PageStep(all, pg, projects) ==
    IF projects = << >>
    THEN [all |-> all, page |-> pg, done |-> TRUE]
    ELSE IF Len(projects) < PageSize
         THEN [all |-> all \o projects, page |-> pg, done |-> TRUE]
         ELSE [all |-> all \o projects, page |-> pg + 1, done |-> FALSE]

\* display_name with the group taken before the purl
DisplayName_GroupFirst(dep) ==
    LET purl == Get(dep, "purl", << >>)
        comp_name == Get(dep, "name", << "U","n","k","n","o","w","n" >>)
        comp_version == Get(dep, "version", << "?" >>)
        group == Get(dep, "group", << >>)
    IN IF group # << >> THEN group \o << ":" >> \o comp_name \o << "@" >> \o comp_version
       ELSE IF purl # << >> THEN purl
       ELSE comp_name \o << "@" >> \o comp_version

\* print_project_dependencies: display_name
DisplayName(dep) ==
    LET purl == Get(dep, "purl", << >>)
        comp_name == Get(dep, "name", << "U","n","k","n","o","w","n" >>)
        comp_version == Get(dep, "version", << "?" >>)
        group == Get(dep, "group", << >>)
    IN IF purl # << >> THEN purl
       ELSE IF group # << >> THEN group \o << ":" >> \o comp_name \o << "@" >> \o comp_version
       ELSE comp_name \o << "@" >> \o comp_version

\* the tally without upper()
CountStep_NoUpper(counts, v) ==
    LET sev == Get(v, "severity", S_UNASSIGNED)
    IN IF sev \in DOMAIN counts THEN [counts EXCEPT ![sev] = @ + 1] ELSE counts

\* print_project_dependencies: the body of "for v in vulns" on one tally
CountStep(counts, v) ==
    LET sev == Upper(Get(v, "severity", S_UNASSIGNED))
    IN IF sev \in DOMAIN counts THEN [counts EXCEPT ![sev] = @ + 1] ELSE counts

\* print_project_dependencies: vuln_counts after "for v in vulns"
RECURSIVE VulnCounts(_, _)
VulnCounts(vulns, counts) ==
    IF vulns = << >> THEN counts
    ELSE VulnCounts(Tail(vulns), CountStep(counts, Head(vulns)))

\* print_project_dependencies: total_vulns after "for v in vulns"
AddTotals(total, vulns) == VulnCounts(vulns, total)

Glyph(g, n) == [glyph |-> g, n |-> n]
OKMark == [ok |-> TRUE]

\* vuln_str without the fallback to the OK marker
VulnStr_NoFallback(vc) ==
    (IF vc[S_CRITICAL] > 0 THEN << Glyph("red", vc[S_CRITICAL]) >> ELSE << >>)
        \o (IF vc[S_HIGH] > 0 THEN << Glyph("orange", vc[S_HIGH]) >> ELSE << >>)
        \o (IF vc[S_MEDIUM] > 0 THEN << Glyph("yellow", vc[S_MEDIUM]) >> ELSE << >>)
        \o (IF vc[S_LOW] > 0 THEN << Glyph("green", vc[S_LOW]) >> ELSE << >>)

\* print_project_dependencies: vuln_str
VulnStr(vc) ==
    LET vuln_summary ==
            (IF vc[S_CRITICAL] > 0 THEN << Glyph("red", vc[S_CRITICAL]) >> ELSE << >>)
         \o (IF vc[S_HIGH] > 0 THEN << Glyph("orange", vc[S_HIGH]) >> ELSE << >>)
         \o (IF vc[S_MEDIUM] > 0 THEN << Glyph("yellow", vc[S_MEDIUM]) >> ELSE << >>)
         \o (IF vc[S_LOW] > 0 THEN << Glyph("green", vc[S_LOW]) >> ELSE << >>)
    IN IF vuln_summary # << >> THEN vuln_summary ELSE << OKMark >>

\* format_severity
FormatSeverity(severity) ==
    LET u == Upper(severity)
    IN CASE u = S_CRITICAL -> [glyph |-> "red", text |-> S_CRITICAL]
         [] u = S_HIGH -> [glyph |-> "orange", text |-> S_HIGH]
         [] u = S_MEDIUM -> [glyph |-> "yellow", text |-> S_MEDIUM]
         [] u = S_LOW -> [glyph |-> "green", text |-> S_LOW]
         [] u = S_UNASSIGNED -> [glyph |-> "white", text |-> S_UNASSIGNED]
         [] u = S_INFO -> [glyph |-> "blue", text |-> S_INFO]
         [] OTHER -> [raw |-> severity]

\* v.get('cvssV3BaseScore') or v.get('cvssV2BaseScore') or '-'
Cvss(v) ==
    LET v3 == Get(v, "cvssV3BaseScore", 0)
        v2 == Get(v, "cvssV2BaseScore", 0)
    IN IF v3 # 0 THEN [score |-> v3] ELSE IF v2 # 0 THEN [score |-> v2] ELSE [dash |-> TRUE]

DetailLine(v) ==
    [kind |-> "detail", vulnId |-> Get(v, "vulnId", "N/A"),
     label |-> FormatSeverity(Get(v, "severity", S_UNASSIGNED)), cvss |-> Cvss(v)]

\* the detail lines without the slice
FirstShown_All(vulns) == vulns

\* vulns[:3]
FirstShown(vulns) == SubSeq(vulns, 1, IF Len(vulns) < ShownVulns THEN Len(vulns) ELSE ShownVulns)

\* "if len(vulns) > 3": the overflow notice
MoreLines(vulns) ==
    IF Len(vulns) > ShownVulns
    THEN << [kind |-> "more", n |-> Len(vulns) - ShownVulns] >> ELSE << >>

\* print_project_dependencies: what one turn of "for idx, dep" prints
RenderDep(idx, dep, vulns) ==
    IF vulns # << >>
    THEN << [kind |-> "dep", idx |-> idx, display |-> DisplayName(dep), mark |-> << >>],
            [kind |-> "vsum", str |-> VulnStr(VulnCounts(vulns, ZeroCounts)),
             total |-> Len(vulns)] >>
         \o [i \in 1..Len(FirstShown(vulns)) |-> DetailLine(FirstShown(vulns)[i])]
         \o MoreLines(vulns)
    ELSE << [kind |-> "dep", idx |-> idx, display |-> DisplayName(dep), mark |-> << OKMark >>] >>

SummaryLine(n, total) == [kind |-> "summary", components |-> n, counts |-> total]

HeaderLine(p) ==
    [kind |-> "header", name |-> Get(p, "name", << "U","n","k","n","o","w","n" >>),
     version |-> Get(p, "version", << "-" >>), uuid |-> Get(p, "uuid", << >>)]

ItemLine(p) == [kind |-> "item", name |-> Get(p, "name", None), uuid |-> Get(p, "uuid", None)]

Req(ep, arg, ok) == [ep |-> ep, arg |-> arg, ok |-> ok]


-----------------------------------------------------------------------------
(* The program *)

InitLocals ==
    /\ pc = "main"
    /\ caller = "none"
    /\ page = 1
    /\ all_projects = << >>
    /\ project = None
    /\ pidx = 0
    /\ direct_deps = << >>
    /\ didx = 0
    /\ total_vulns = ZeroCounts
    /\ vulnsGot = << >>
    /\ out = << >>
    /\ reqlog = << >>
    /\ nfail = 0

\* a small backend with fixed dependencies; every kind of command line
InitResolve ==
    /\ argv \in { << >> } \cup { << t >> : t \in UuidTokens \cup NameTokens }
    /\ srvPages \in { << l >> : l \in SeqUpTo(ProjectPool, MaxProjects) }
    /\ srvDeps = FixedDeps
    /\ InitLocals

\* one project with every list of direct dependencies
InitReport ==
    /\ argv \in { << >>, << UUID_KNOWN >> }
    /\ srvPages = << << PA >> >>
    /\ srvDeps \in { [u \in {1} |-> d] : d \in SeqUpTo(ComponentPool, MaxDeps) }
    /\ InitLocals

\* a large backend: pages of 0, 37 or 100 projects
InitPages ==
    /\ argv \in { << N_MyLib >>, << N_my >>, << T_36_4odd >> }
    /\ srvPages \in { [p \in 1..MaxPages |-> BigPage(p, sz[p])] :
                        sz \in [1..MaxPages -> PageSizes] }
    /\ srvDeps = [u \in {2037} |-> << CompA >>]
    /\ InitLocals

Init == InitResolve \/ InitReport \/ InitPages

\* a call of get_projects from c
CallGetProjects(c) ==
    /\ pc' = "get_projects"
    /\ caller' = c
    /\ page' = 1
    /\ all_projects' = << >>

\* main, up to the first request
Main ==
    /\ pc = "main"
    /\ IF Len(argv) > 0
       THEN IF LooksLikeUuid(argv[1])
            THEN pc' = "get_project_by_uuid" /\ UNCHANGED << caller, page, all_projects >>
            ELSE CallGetProjects("find_project_by_name")
       ELSE CallGetProjects("list_all_projects")
    /\ UNCHANGED << argv, srvPages, srvDeps, project, pidx, direct_deps, didx,
                    total_vulns, vulnsGot, out, reqlog, nfail >>

PageReq(ok) == Req("projects", [pageNumber |-> page, pageSize |-> PageSize], ok)

\* get_projects: one page received; at the end of the loop, return to the caller
GetProjectsOk ==
    /\ pc = "get_projects"
    /\ LET r == PageStep(all_projects, page, PageOf(page))
       IN /\ all_projects' = r.all
          /\ page' = r.page
          /\ pc' = IF r.done THEN caller ELSE "get_projects"
    /\ reqlog' = Append(reqlog, PageReq(TRUE))
    /\ UNCHANGED << argv, srvPages, srvDeps, caller, project, pidx, direct_deps, didx,
                    total_vulns, vulnsGot, out, nfail >>

\* get_projects: the request raises; no caller catches it
GetProjectsFail ==
    /\ pc = "get_projects"
    /\ nfail < MaxFails
    /\ nfail' = nfail + 1
    /\ reqlog' = Append(reqlog, PageReq(FALSE))
    /\ pc' = "crashed"
    /\ UNCHANGED << argv, srvPages, srvDeps, caller, page, all_projects, project, pidx,
                    direct_deps, didx, total_vulns, vulnsGot, out >>

\* main, from "if project:" to the next request
Resolved(p) ==
    /\ project' = p
    /\ IF Truthy(p)
       THEN /\ pc' = "print_project_dependencies"
            /\ UNCHANGED << out, caller, page, all_projects >>
       ELSE /\ out' = out \o << [kind |-> "not_found", key |-> argv[1]],
                                [kind |-> "available"] >>
            /\ CallGetProjects("available")

\* find_project_by_name, after its call of get_projects
FindProjectByName ==
    /\ pc = "find_project_by_name"
    /\ Resolved(FindFirst(all_projects, argv[1]))
    /\ UNCHANGED << argv, srvPages, srvDeps, pidx, direct_deps, didx, total_vulns,
                    vulnsGot, reqlog, nfail >>

GetProjectByUuidOk ==
    /\ pc = "get_project_by_uuid"
    /\ KnownUuid(argv[1])
    /\ reqlog' = Append(reqlog, Req("project", argv[1], TRUE))
    /\ Resolved(ProjectOf(argv[1]))
    /\ UNCHANGED << argv, srvPages, srvDeps, pidx, direct_deps, didx, total_vulns,
                    vulnsGot, nfail >>

\* get_project_by_uuid: 404 for an unknown uuid, or any other error
GetProjectByUuidFail ==
    /\ pc = "get_project_by_uuid"
    /\ ~KnownUuid(argv[1]) \/ nfail < MaxFails
    /\ nfail' = IF KnownUuid(argv[1]) THEN nfail + 1 ELSE nfail
    /\ reqlog' = Append(reqlog, Req("project", argv[1], FALSE))
    /\ Resolved(None)
    /\ UNCHANGED << argv, srvPages, srvDeps, pidx, direct_deps, didx, total_vulns,
                    vulnsGot >>

\* main: the list printed after "Project not found"
Available ==
    /\ pc = "available"
    /\ out' = out \o [i \in 1..Len(all_projects) |-> ItemLine(all_projects[i])]
    /\ pc' = "done"
    /\ UNCHANGED << argv, srvPages, srvDeps, caller, page, all_projects, project, pidx,
                    direct_deps, didx, total_vulns, vulnsGot, reqlog, nfail >>

\* list_all_projects, after its call of get_projects
ListAllProjects ==
    /\ pc = "list_all_projects"
    /\ IF all_projects = << >>
       THEN /\ out' = Append(out, [kind |-> "no_projects"])
            /\ pc' = "done"
            /\ UNCHANGED << project, pidx >>
       ELSE /\ out' = Append(out, [kind |-> "found", n |-> Len(all_projects)])
            /\ pidx' = 1
            /\ project' = all_projects[1]
            /\ pc' = "print_project_dependencies"
    /\ UNCHANGED << argv, srvPages, srvDeps, caller, page, all_projects, direct_deps,
                    didx, total_vulns, vulnsGot, reqlog, nfail >>

\* print_project_dependencies, from its start to the first vulnerability request;
\* warn: what get_direct_dependencies printed
DepsReceived(deps, warn) ==
    /\ out' = out \o << HeaderLine(project) >> \o warn
                  \o (IF deps = << >> THEN << [kind |-> "no_deps"] >>
                      ELSE << [kind |-> "count", n |-> Len(deps)] >>)
    /\ direct_deps' = deps
    /\ didx' = 1
    /\ total_vulns' = ZeroCounts
    /\ vulnsGot' = << >>
    /\ pc' = IF deps = << >> THEN "returned" ELSE "get_component_vulnerabilities"

GetDirectDependenciesOk ==
    /\ pc = "print_project_dependencies"
    /\ reqlog' = Append(reqlog, Req("deps", Get(project, "uuid", << >>), TRUE))
    /\ DepsReceived(DepsOf(Get(project, "uuid", << >>)), << >>)
    /\ UNCHANGED << argv, srvPages, srvDeps, caller, page, all_projects, project, pidx,
                    nfail >>

GetDirectDependenciesFail ==
    /\ pc = "print_project_dependencies"
    /\ nfail < MaxFails
    /\ nfail' = nfail + 1
    /\ reqlog' = Append(reqlog, Req("deps", Get(project, "uuid", << >>), FALSE))
    /\ DepsReceived(<< >>, << [kind |-> "warn_deps"] >>)
    /\ UNCHANGED << argv, srvPages, srvDeps, caller, page, all_projects, project, pidx >>

\* print_project_dependencies: one turn of "for idx, dep" on the vulnerabilities
\* received, and the summary after the last turn
VulnsReceived(vulns) ==
    LET dep == direct_deps[didx]
        last == didx = Len(direct_deps)
        total == AddTotals(total_vulns, vulns)
    IN /\ out' = out \o RenderDep(didx, dep, vulns)
                     \o (IF last THEN << SummaryLine(Len(direct_deps), total) >> ELSE << >>)
       /\ total_vulns' = total
       /\ vulnsGot' = Append(vulnsGot, vulns)
       /\ didx' = didx + 1
       /\ pc' = IF last THEN "returned" ELSE "get_component_vulnerabilities"

GetComponentVulnerabilitiesOk ==
    /\ pc = "get_component_vulnerabilities"
    /\ reqlog' = Append(reqlog, Req("vulns", Get(direct_deps[didx], "uuid", << >>), TRUE))
    /\ VulnsReceived(VulnsOf(Get(direct_deps[didx], "uuid", << >>)))
    /\ UNCHANGED << argv, srvPages, srvDeps, caller, page, all_projects, project, pidx,
                    direct_deps, nfail >>

\* get_component_vulnerabilities without its try/except: the error leaves main
GetComponentVulnerabilitiesFail_Raises ==
    /\ pc = "get_component_vulnerabilities"
    /\ nfail < MaxFails
    /\ nfail' = nfail + 1
    /\ reqlog' = Append(reqlog, Req("vulns", Get(direct_deps[didx], "uuid", << >>), FALSE))
    /\ pc' = "crashed"
    /\ UNCHANGED << argv, srvPages, srvDeps, caller, page, all_projects, project, pidx,
                    direct_deps, didx, total_vulns, vulnsGot, out >>

GetComponentVulnerabilitiesFail ==
    /\ pc = "get_component_vulnerabilities"
    /\ nfail < MaxFails
    /\ nfail' = nfail + 1
    /\ reqlog' = Append(reqlog, Req("vulns", Get(direct_deps[didx], "uuid", << >>), FALSE))
    /\ VulnsReceived(<< >>)
    /\ UNCHANGED << argv, srvPages, srvDeps, caller, page, all_projects, project, pidx,
                    direct_deps >>

\* after print_project_dependencies: the loop of list_all_projects, or the end of main
Returned ==
    /\ pc = "returned"
    /\ IF Len(argv) = 0
       THEN IF pidx < Len(all_projects)
            THEN /\ pidx' = pidx + 1
                 /\ project' = all_projects[pidx + 1]
                 /\ pc' = "print_project_dependencies"
                 /\ out' = out
            ELSE /\ out' = Append(out, [kind |-> "completed"])
                 /\ pc' = "done"
                 /\ UNCHANGED << pidx, project >>
       ELSE pc' = "done" /\ UNCHANGED << pidx, project, out >>
    /\ UNCHANGED << argv, srvPages, srvDeps, caller, page, all_projects, direct_deps,
                    didx, total_vulns, vulnsGot, reqlog, nfail >>

Next ==
    \/ Main
    \/ GetProjectsOk
    \/ GetProjectsFail
    \/ FindProjectByName
    \/ GetProjectByUuidOk
    \/ GetProjectByUuidFail
    \/ Available
    \/ ListAllProjects
    \/ GetDirectDependenciesOk
    \/ GetDirectDependenciesFail
    \/ GetComponentVulnerabilitiesOk
    \/ GetComponentVulnerabilitiesFail
    \/ Returned

Spec == Init /\ [][Next]_vars


-----------------------------------------------------------------------------
(* Reading the output and the request log *)

SetMax(S) == CHOOSE x \in S : \A y \in S : y <= x
SetMin(S) == CHOOSE x \in S : \A y \in S : x <= y
Min2(a, b) == IF a < b THEN a ELSE b

Terminated == pc \in { "done", "crashed" }

\* position of the header of the project being reported (0: none yet)
LastHeader == SetMax({0} \cup { i \in DOMAIN out : out[i].kind = "header" })

\* the name line of dependency k of the project being reported
HasDepLine(k) == \E i \in (LastHeader + 1)..Len(out) : out[i].kind = "dep" /\ out[i].idx = k
DepPos(k) == CHOOSE i \in (LastHeader + 1)..Len(out) : out[i].kind = "dep" /\ out[i].idx = k

\* the lines printed for dependency k after its name line
BlockEnd(k) ==
    SetMin({ Len(out) + 1 } \cup
           { i \in (DepPos(k) + 1)..Len(out) : out[i].kind \in { "dep", "summary" } }) - 1
Block(k) == SubSeq(out, DepPos(k) + 1, BlockEnd(k))

IsDetail(l) == l.kind = "detail"
IsMore(l) == l.kind = "more"
IsVsum(l) == l.kind = "vsum"
Details(k) == SelectSeq(Block(k), IsDetail)
Mores(k) == SelectSeq(Block(k), IsMore)
Vsums(k) == SelectSeq(Block(k), IsVsum)

\* the vulnerability requests made for the project being reported
LastDepsReq == SetMax({0} \cup { i \in DOMAIN reqlog : reqlog[i].ep = "deps" })
VulnReqs == IF LastDepsReq = 0 THEN << >> ELSE SubSeq(reqlog, LastDepsReq + 1, Len(reqlog))

\* the upper-cased severity of a vulnerability
SevOf(v) == Upper(IF "severity" \in DOMAIN v THEN v.severity ELSE S_UNASSIGNED)

\* how many vulnerabilities of severity s the lists received hold
Sevs == [k \in DOMAIN vulnsGot |-> [i \in DOMAIN vulnsGot[k] |-> SevOf(vulnsGot[k][i])]]
TallyIn(sevs, s) ==
    Cardinality(UNION { { << k, j >> : j \in { i \in DOMAIN sevs[k] : sevs[k][i] = s } } :
                        k \in DOMAIN sevs })

\* the list of all projects of the backend, as paging defines it: the pages up to
\* and including the first that is not full
FirstShort == SetMin({ p \in 1..(Len(srvPages) + 1) : Len(PageOf(p)) < PageSize })
ExpectedProjects ==
    [j \in 1..((FirstShort - 1) * PageSize + Len(PageOf(FirstShort))) |->
        PageOf(((j - 1) \div PageSize) + 1)[((j - 1) % PageSize) + 1]]

\* equality of strings ignoring the case of letters
SameLetter(x, y) == x = y \/ \E i \in DOMAIN Lo : { x, y } = { Lo[i], Up[i] }
EqIgnoreCase(a, b) == Len(a) = Len(b) /\ \A i \in DOMAIN a : SameLetter(a[i], b[i])


-----------------------------------------------------------------------------
(* Claims *)

IsPageReq(i) == i \in DOMAIN reqlog /\ reqlog[i].ep = "projects"
FullPageReq(i) ==
    IsPageReq(i) /\ reqlog[i].ok /\ Len(PageOf(reqlog[i].arg.pageNumber)) = PageSize

\* get_projects has just returned to its caller
GetProjectsReturned == pc \in { "find_project_by_name", "list_all_projects", "available" }

\* C1: get_projects asks for pages 1, 2, 3, ... in order with page size 100: a
\* page request follows a full page with the next page number, and any other page
\* request is for page 1 (a new call); after a full page the loop goes on, after
\* an empty or short page it stops; and what it returns is the concatenation, in
\* order, of the pages up to and including the first page that is not full.
C1_Pagination ==
    /\ \A i \in DOMAIN reqlog : IsPageReq(i) =>
          /\ reqlog[i].arg.pageSize = 100
          /\ reqlog[i].arg.pageNumber =
                IF FullPageReq(i - 1) THEN reqlog[i - 1].arg.pageNumber + 1 ELSE 1
          /\ (FullPageReq(i) /\ i = Len(reqlog)) => pc = "get_projects"
          /\ (FullPageReq(i) /\ i < Len(reqlog)) => IsPageReq(i + 1)
    /\ GetProjectsReturned =>
          /\ all_projects = ExpectedProjects
          /\ IsPageReq(Len(reqlog))
          /\ reqlog[Len(reqlog)].ok
          /\ reqlog[Len(reqlog)].arg.pageNumber = FirstShort

\* pages of 100, 100 and 37 projects give 237 projects
C1_Witness ==
    /\ GetProjectsReturned
    /\ Len(srvPages) >= 3 /\ Len(srvPages[1]) = 100 /\ Len(srvPages[2]) = 100
    /\ Len(srvPages[3]) = 37
    /\ Len(all_projects) = 237
    /\ all_projects[237] = srvPages[3][37]

\* the summary of the project being reported has been printed
SummaryPrinted == pc = "returned" /\ direct_deps # << >>
LastSummary == out[SetMax({ i \in DOMAIN out : out[i].kind = "summary" })]

\* C2: the summary footer of a project with direct dependencies reports, for
\* CRITICAL, HIGH, MEDIUM and LOW, the number of vulnerabilities of that severity
\* (upper-cased) over the vulnerability lists of all its direct dependencies; a
\* list fetched without error is the backend's list; other severities count for
\* nothing.
C2_SeverityTally ==
    SummaryPrinted =>
        /\ Len(vulnsGot) = Len(direct_deps)
        /\ Len(VulnReqs) = Len(direct_deps)
        /\ \A k \in DOMAIN vulnsGot :
              VulnReqs[k].ok => vulnsGot[k] = VulnsOf(direct_deps[k].uuid)
        /\ LET sevs == Sevs
                line == LastSummary
           IN /\ DOMAIN line.counts = { S_CRITICAL, S_HIGH, S_MEDIUM, S_LOW }
              /\ \A s \in { S_CRITICAL, S_HIGH, S_MEDIUM, S_LOW } :
                    line.counts[s] = TallyIn(sevs, s)
              /\ line.components = Len(direct_deps)

\* [{CRITICAL,HIGH}, {}, {LOW,LOW,MEDIUM}] gives Critical=1, High=1, Medium=1, Low=2
C2_Witness ==
    /\ SummaryPrinted
    /\ direct_deps = << CompA, CompB, CompC >>
    /\ \A k \in DOMAIN VulnReqs : VulnReqs[k].ok
    /\ LastSummary.counts[S_CRITICAL] = 1 /\ LastSummary.counts[S_HIGH] = 1
    /\ LastSummary.counts[S_MEDIUM] = 1 /\ LastSummary.counts[S_LOW] = 2

Headers == SelectSeq(out, LAMBDA l : l.kind = "header")

\* C3: a failed vulnerability request aborts nothing: the program stops abnormally
\* only on a failed list-projects request; the vulnerability requests of a project
\* go through its dependencies in order, whatever failed; a failed one gives the
\* empty list and the dependency is printed as free of vulnerabilities; every
\* dependency is reached, the summary is printed, and with no argument every
\* project is reported, in order, before the completion marker.
C3_FailureIsolation ==
    /\ pc = "crashed" => (IsPageReq(Len(reqlog)) /\ ~reqlog[Len(reqlog)].ok)
    /\ pc = "print_project_dependencies" =>
          (Len(argv) = 0 => (pidx \in DOMAIN all_projects /\ project = all_projects[pidx]))
    /\ Len(VulnReqs) = Len(vulnsGot)
    /\ \A k \in DOMAIN VulnReqs :
          /\ VulnReqs[k].ep = "vulns"
          /\ VulnReqs[k].arg = direct_deps[k].uuid
          /\ HasDepLine(k)
          /\ ~VulnReqs[k].ok =>
                /\ vulnsGot[k] = << >>
                /\ Block(k) = << >>
                /\ out[DepPos(k)].mark = << OKMark >>
    /\ pc = "get_component_vulnerabilities" =>
          (didx = Len(vulnsGot) + 1 /\ didx <= Len(direct_deps))
    /\ SummaryPrinted =>
          (Len(vulnsGot) = Len(direct_deps) /\ out[Len(out)].kind = "summary")
    /\ (pc = "done" /\ Len(argv) = 0 /\ all_projects # << >>) =>
          /\ Len(Headers) = Len(all_projects)
          /\ \A i \in DOMAIN Headers : Headers[i].uuid = all_projects[i].uuid
          /\ out[Len(out)].kind = "completed"

\* with no argument, a vulnerability request of the first of two projects failed,
\* its later dependency and the second project were reported, the marker printed
C3_Witness ==
    /\ pc = "done" /\ Len(argv) = 0 /\ Len(all_projects) = 2
    /\ \E i \in DOMAIN reqlog :
          /\ reqlog[i].ep = "vulns" /\ ~reqlog[i].ok
          /\ i + 1 \in DOMAIN reqlog /\ reqlog[i + 1].ep = "vulns" /\ reqlog[i + 1].ok
          /\ \E j \in (i + 2)..Len(reqlog) : reqlog[j].ep = "deps" /\ reqlog[j].ok
    /\ Len(Headers) = 2
    /\ out[Len(out)].kind = "completed"

\* C4: a failed request of a list-projects page or of the direct dependencies is
\* printed as a warning and the process goes on with what it has; it does not
\* stop abnormally.
C4_MandatoryFailuresSurvive ==
    \A i \in DOMAIN reqlog :
        (reqlog[i].ep \in { "projects", "deps" } /\ ~reqlog[i].ok) =>
            /\ pc # "crashed"
            /\ \E j \in DOMAIN out : out[j].kind \in { "warn_deps", "warn_projects" }

NotFoundPrinted == out # << >> /\ out[1].kind = "not_found"

\* C5: when the argument resolves to no project, main prints "Project not found"
\* and one line for every project of list-projects, reports no project, and the
\* process ends normally.
C5_NotFoundIsNotFatal ==
    (Len(argv) > 0 /\ project = None /\ NotFoundPrinted) =>
        /\ pc # "crashed"
        /\ Len(Headers) = 0
        /\ pc = "done" =>
              out = << [kind |-> "not_found", key |-> argv[1]], [kind |-> "available"] >>
                    \o [i \in 1..Len(ExpectedProjects) |->
                          [kind |-> "item", name |-> ExpectedProjects[i].name,
                           uuid |-> ExpectedProjects[i].uuid]]

\* 36 characters, 4 of them hyphens
UuidShaped(t) == Len(t) = 36 /\ Cardinality({ i \in DOMAIN t : t[i] = "-" }) = 4

UuidLookupDone == pc = "get_project_by_uuid" \/ \E i \in DOMAIN reqlog : reqlog[i].ep = "project"
NameSearchDone ==
    \/ pc = "find_project_by_name"
    \/ caller = "find_project_by_name"
    \/ (reqlog # << >> /\ reqlog[1].ep = "projects")

\* C6: main resolves the token by the lookup by uuid if and only if it has exactly
\* 36 characters of which exactly 4 are hyphens; the lookup then is the first
\* request, for that token, and is made once, and list-projects is not called
\* before "Project not found" is printed; any other token is resolved by the name
\* search and never by the lookup by uuid.
C6_Classification ==
    (Len(argv) > 0 /\ pc # "main") =>
        /\ UuidLookupDone <=> UuidShaped(argv[1])
        /\ NameSearchDone <=> ~UuidShaped(argv[1])
        /\ (UuidShaped(argv[1]) /\ reqlog # << >>) =>
              /\ reqlog[1].ep = "project"
              /\ reqlog[1].arg = argv[1]
              /\ \A i \in DOMAIN reqlog : reqlog[i].ep = "project" => i = 1
              /\ \A i \in DOMAIN reqlog : reqlog[i].ep = "projects" => NotFoundPrinted

\* a token of 36 characters with 4 hyphens at odd places went to the lookup by uuid
C6_Witness ==
    /\ argv = << T_36_4odd >>
    /\ Terminated
    /\ reqlog[1].ep = "project"

\* find_project_by_name has returned (to main)
NameSearchReturned ==
    /\ Len(argv) > 0 /\ ~UuidShaped(argv[1])
    /\ pc \notin { "main", "find_project_by_name" }
    /\ ~(pc \in { "get_projects", "crashed" } /\ caller = "find_project_by_name")

NameHits == { i \in DOMAIN ExpectedProjects : EqIgnoreCase(ExpectedProjects[i].name, argv[1]) }

\* C7: find_project_by_name returns the first project of the list of list-projects
\* whose name equals the searched name ignoring case, and None if and only if the
\* list has no such project.
C7_FindByName ==
    NameSearchReturned =>
        IF NameHits = { } THEN project = None
        ELSE project = ExpectedProjects[SetMin(NameHits)]

\* searching "MyLib" skips "mylibx" and returns the project named "mylib"
C7_Witness ==
    /\ NameSearchReturned
    /\ argv = << N_MyLib >>
    /\ Len(ExpectedProjects) = 2 /\ ExpectedProjects[1].name = N_mylibx
    /\ project # None /\ project.name = N_mylib

\* C8: for a dependency with n vulnerabilities there are min(n, 3) detail lines,
\* for the first min(n, 3) vulnerabilities in order, then the overflow notice if
\* and only if n > 3, with the count n - 3.
C8_Truncation ==
    \A k \in DOMAIN vulnsGot :
        HasDepLine(k) /\
        LET n == Len(vulnsGot[k])
            B == Block(k)
            D == SelectSeq(B, IsDetail)
            M == SelectSeq(B, IsMore)
        IN /\ Len(D) = Min2(n, 3)
           /\ \A j \in DOMAIN D :
                 /\ D[j].vulnId = (IF "vulnId" \in DOMAIN vulnsGot[k][j]
                                    THEN vulnsGot[k][j].vulnId ELSE "N/A")
                 /\ B[j + 1] = D[j]
           /\ Len(M) = (IF n > 3 THEN 1 ELSE 0)
           /\ n > 3 => (M[1].n = n - 3 /\ B[Len(B)].kind = "more")

\* 5 vulnerabilities: 3 detail lines and "... and 2 more"
C8_Witness ==
    \E k \in DOMAIN vulnsGot :
        /\ Len(vulnsGot[k]) = 5
        /\ Len(Details(k)) = 3
        /\ Mores(k) = << [kind |-> "more", n |-> 2] >>

NonEmptyField(d, f) == f \in DOMAIN d /\ d[f] # << >>
FieldOr(d, f, default) == IF f \in DOMAIN d THEN d[f] ELSE default
NameAtVersion(d) ==
    FieldOr(d, "name", << "U","n","k","n","o","w","n" >>) \o << "@" >>
        \o FieldOr(d, "version", << "?" >>)

\* C9: the display name of a dependency is its purl when it has a non-empty
\* purl; otherwise group:name@version when it has a non-empty group; otherwise
\* name@version.
C9_DisplayName ==
    \A k \in DOMAIN vulnsGot :
        LET d == direct_deps[k] IN
        /\ HasDepLine(k)
        /\ NonEmptyField(d, "purl") => out[DepPos(k)].display = d.purl
        /\ (~NonEmptyField(d, "purl") /\ NonEmptyField(d, "group")) =>
              out[DepPos(k)].display = d.group \o << ":" >> \o NameAtVersion(d)
        /\ (~NonEmptyField(d, "purl") /\ ~NonEmptyField(d, "group")) =>
              out[DepPos(k)].display = NameAtVersion(d)

\* a dependency with purl and group is shown by its purl, one with a group only
\* as group:name@version
C9_Witness ==
    /\ Len(vulnsGot) = 2
    /\ direct_deps[1] = CompA /\ out[DepPos(1)].display = A_purl
    /\ direct_deps[2] = CompB
    /\ out[DepPos(2)].display = << "c","o","m",":","f","o","o","@","1",".","0" >>

\* the OK marker is in the summary of dependency k
OKShown(k) ==
    \/ out[DepPos(k)].mark = << OKMark >>
    \/ \E j \in DOMAIN Vsums(k) : \E i \in DOMAIN Vsums(k)[j].str : Vsums(k)[j].str[i] = OKMark

HasActionable(vulns) == \E j \in DOMAIN vulns : SevOf(vulns[j]) \in Actionable

\* C10 as stated: the OK marker is in a dependency's summary when, and only
\* when, its vulnerability list is empty.
C10_OKOnlyWhenEmpty ==
    \A k \in DOMAIN vulnsGot : OKShown(k) <=> vulnsGot[k] = << >>

\* C10 as amended: the OK marker is in a dependency's summary when, and only
\* when, its vulnerability list holds no vulnerability whose upper-cased severity
\* is CRITICAL, HIGH, MEDIUM or LOW: on the name line when the list is empty, on
\* the "Vulnerabilities" line, with the total, when the list is not empty; a
\* dependency with such a vulnerability is summarised by glyphs and counts.
C10_OKWhenNothingActionable ==
    \A k \in DOMAIN vulnsGot :
        HasDepLine(k) /\
        LET vulns == vulnsGot[k]
            B == Block(k)
            V == SelectSeq(B, IsVsum)
            onName == out[DepPos(k)].mark = << OKMark >>
            onVsum == \E j \in DOMAIN V : \E i \in DOMAIN V[j].str : V[j].str[i] = OKMark
            actionable == HasActionable(vulns)
        IN /\ (onName \/ onVsum) <=> ~actionable
           /\ onName <=> vulns = << >>
           /\ Len(V) = (IF vulns = << >> THEN 0 ELSE 1)
           /\ vulns # << >> =>
                 /\ V[1].total = Len(vulns)
                 /\ B[1] = V[1]
                 /\ actionable =>
                       \A i \in DOMAIN V[1].str : V[1].str[i] # OKMark /\ V[1].str[i].n > 0

\* a dependency with an UNASSIGNED and an info vulnerability is summarised "OK"
C10_Witness ==
    \E k \in DOMAIN vulnsGot :
        /\ Len(vulnsGot[k]) = 2
        /\ ~HasActionable(vulnsGot[k])
        /\ Vsums(k) = << [kind |-> "vsum", str |-> << OKMark >>, total |-> 2] >>

=============================================================================
